---- MODULE Spec2Model ----
(***************************************************************************)
(* A model of gitfuse: the inode allocator of fs.py, the directory tree of *)
(* directory_entry.py with the lazy tag/branch subtrees and the update     *)
(* scheduler of githubfs.py, and the tagged cache of cache.py with the     *)
(* remote client of ghclient.py.                                           *)
(*                                                                         *)
(* The specifications share the variables:                                 *)
(*   SpecAlloc  threads calling create_ino / create_ino_range,             *)
(*   Spec       the update scheduler thread and a filesystem-request       *)
(*              thread working on one directory tree,                      *)
(*   SpecCache  one TaggedCache, its file, and the client calls on it,     *)
(*   SpecZone   the update scheduler alone, on hosts in several time zones,*)
(*   SpecFs     the request handlers of fs.py on the tree FileSystem.init  *)
(*              builds, and mkdir of githubfs.py.                          *)
(*   SpecRead   byte-range reads of one string payload.                    *)
(***************************************************************************)
EXTENDS Integers, Sequences, FiniteSets, TLC

VARIABLES
    ino,        \* FileSystem.ino, the inode counter
    lock,       \* FileSystem.lock, a threading.RLock: its owner and depth
    apc,        \* SpecAlloc: each thread's position in create_ino[_range]
    handed,     \* SpecAlloc: the results returned so far, in order
    cache,      \* SpecCache: one TaggedCache: its dict and its tags dict
    file,       \* SpecCache: the content of the cache's file (self.fn)
    proc,       \* SpecCache: "down", or the cache object "fresh" / "live"
    now,        \* SpecCache: time.time()
    call,       \* SpecCache: the client calls (coroutines) in flight
    saved,      \* SpecCache: the cache state the last save() wrote
    nodes,      \* Spec: the DirectoryEntry objects, by inode
    sched,      \* Spec: the update thread
    rd,         \* Spec: the filesystem thread's request
    stk,        \* Spec: each thread's update() executions, innermost last
    tz,         \* Spec, SpecZone: the host's offset from UTC, in seconds
    trees,      \* SpecFs: FileSystem.trees, the PathTree objects by inode
    fsreq,      \* SpecFs: the last request handled and what was replied
    payload     \* SpecRead: a string payload and the last read of it

allocVars == <<ino, lock, apc, handed>>
cacheVars == <<cache, file, proc, now, call, saved>>
treeVars == <<nodes, sched, rd, stk>>
fsVars == <<trees, fsreq, payload>>
vars == <<ino, lock, apc, handed, cache, file, proc, now, call, saved,
          nodes, sched, rd, stk, tz, trees, fsreq, payload>>

(***************************************************************************)
(* Threads and the re-entrant lock (fs.py, FileSystem.__init__).           *)
(***************************************************************************)
Threads == {"fs", "sched"}
NoThread == "none"

\* Largest counter value SpecAlloc lets a call reach.
MaxIno == 5
\* Largest num passed to create_ino_range.
MaxRange == 2

LockAvailable(t) == lock.owner \in {NoThread, t}

Acquire(t) == [owner |-> t, depth |-> lock.depth + 1]

Release(t) ==
    IF lock.depth = 1 THEN [owner |-> NoThread, depth |-> 0]
    ELSE [owner |-> t, depth |-> lock.depth - 1]

(***************************************************************************)
(* The inode allocator (fs.py, FileSystem.create_ino / create_ino_range):  *)
(* the counter after the call and the value returned.                      *)
(***************************************************************************)
create_ino(c) == [ino |-> c + 1, ret |-> c + 1]

create_ino_range(c, num) ==
    LET start_inode == c
        end_inode == c + num
    IN  [ino |-> end_inode, ret |-> <<start_inode + 1, end_inode + 1>>]

\* with self.lock: entered by thread t for create_ino (num = 0) or
\* create_ino_range(num).
AllocEnter(t, op, num) ==
    /\ apc[t].pc = "idle"
    /\ LockAvailable(t)
    /\ ino + (IF op = "create_ino" THEN 1 ELSE num) <= MaxIno
    /\ lock' = Acquire(t)
    /\ apc' = [apc EXCEPT ![t] = [pc |-> op, num |-> num, ret |-> <<>>]]
    /\ UNCHANGED <<ino, handed, cacheVars, treeVars, fsVars, tz>>

\* The body of create_ino under the lock.
AllocInoBody(t) ==
    /\ apc[t].pc = "create_ino"
    /\ LET r == create_ino(ino)
       IN  /\ ino' = r.ino
           /\ apc' = [apc EXCEPT ![t] = [pc |-> "return", num |-> 0,
                                          ret |-> <<r.ret, r.ret>>]]
    /\ UNCHANGED <<lock, handed, cacheVars, treeVars, fsVars, tz>>

\* The body of create_ino_range under the lock.
AllocRangeBody(t) ==
    /\ apc[t].pc = "create_ino_range"
    /\ LET r == create_ino_range(ino, apc[t].num)
       IN  /\ ino' = r.ino
           /\ apc' = [apc EXCEPT ![t] = [pc |-> "return", num |-> apc[t].num,
                                          ret |-> r.ret]]
    /\ UNCHANGED <<lock, handed, cacheVars, treeVars, fsVars, tz>>

\* The return statement leaves the with block: the lock is released and the
\* caller holds the result.
AllocReturn(t) ==
    /\ apc[t].pc = "return"
    /\ lock' = Release(t)
    /\ handed' = Append(handed, [by |-> t, lo |-> apc[t].ret[1],
                                 hi |-> apc[t].ret[2],
                                 range |-> apc[t].num > 0])
    /\ apc' = [apc EXCEPT ![t] = [pc |-> "idle", num |-> 0, ret |-> <<>>]]
    /\ UNCHANGED <<ino, cacheVars, treeVars, fsVars, tz>>

InitAlloc ==
    /\ ino = 0
    /\ lock = [owner |-> NoThread, depth |-> 0]
    /\ apc = [t \in Threads |-> [pc |-> "idle", num |-> 0, ret |-> <<>>]]
    /\ handed = <<>>

NextAlloc ==
    \/ \E t \in Threads : AllocEnter(t, "create_ino", 0)
    \/ \E t \in Threads, num \in 1..MaxRange : AllocEnter(t, "create_ino_range", num)
    \/ \E t \in Threads : AllocInoBody(t)
    \/ \E t \in Threads : AllocRangeBody(t)
    \/ \E t \in Threads : AllocReturn(t)

(***************************************************************************)
(* Python values held by a TaggedCache and their JSON text (cache.py).     *)
(* A dict over Keys is a function to values, Absent where the key is not   *)
(* in the dict.  json.dump / json.load are modelled by what they do to     *)
(* each kind of value.                                                     *)
(***************************************************************************)
Keys == {"k1", "k2"}
ETags == {"W/a", "W/b"}
Payloads == {"p1", "p2"}
EmptyObject == "{}"

Absent == [ty |-> "absent", s |-> "", n |-> 0]
PyNone == [ty |-> "None", s |-> "", n |-> 0]
PyStr(x) == [ty |-> "str", s |-> x, n |-> 0]
PyFloat(x) == [ty |-> "float", s |-> "", n |-> x]
PyJson(x) == [ty |-> "dict", s |-> x, n |-> 0]

JAbsent == [j |-> "absent", s |-> "", n |-> 0]
JNull == [j |-> "null", s |-> "", n |-> 0]

ToJson(v) ==
    CASE v.ty = "absent" -> JAbsent
      [] v.ty = "None" -> JNull
      [] v.ty = "str" -> [j |-> "string", s |-> v.s, n |-> 0]
      [] v.ty = "float" -> [j |-> "number", s |-> "", n |-> v.n]
      [] v.ty = "dict" -> [j |-> "object", s |-> v.s, n |-> 0]

FromJson(x) ==
    CASE x.j = "absent" -> Absent
      [] x.j = "null" -> PyNone
      [] x.j = "string" -> PyStr(x.s)
      [] x.j = "number" -> PyFloat(x.n)
      [] x.j = "object" -> PyJson(x.s)

EmptyDict == [k \in Keys |-> Absent]
EmptyCache == [data |-> EmptyDict, tags |-> EmptyDict]

\* dict.get(key, default)
Get(d, key, default) == IF d[key] = Absent THEN default ELSE d[key]

\* self.tags[key] = tag, the first statement of set_with_tag
set_tag(c, key, tag) == [c EXCEPT !.tags[key] = tag]
\* self[key] = value, the second statement of set_with_tag
set_value(c, key, value) == [c EXCEPT !.data[key] = value]

(***************************************************************************)
(* The cache file.  kind is "missing", "garbage" (not JSON, or JSON that   *)
(* is no object) or "doc", a JSON object; a doc may lack either member and *)
(* either member may be something other than a mapping.                    *)
(***************************************************************************)
NoDoc(kind) ==
    [kind |-> kind, hasTags |-> FALSE, hasData |-> FALSE, tagsMap |-> FALSE,
     dataMap |-> FALSE, tags |-> [k \in Keys |-> JAbsent],
     data |-> [k \in Keys |-> JAbsent]]

MissingFile == NoDoc("missing")
GarbageFile == NoDoc("garbage")

\* A __getstate__ that forgets the tags, for comparison.
getstate_no_tags(c) == [data |-> c.data, tags |-> EmptyDict]

\* TaggedCache.__getstate__
getstate(c) == [data |-> c.data, tags |-> c.tags]

\* json.dump(self.__getstate__(), f) in TaggedCache.save
JsonDump(state) ==
    [kind |-> "doc", hasTags |-> TRUE, hasData |-> TRUE, tagsMap |-> TRUE,
     dataMap |-> TRUE, tags |-> [k \in Keys |-> ToJson(state.tags[k])],
     data |-> [k \in Keys |-> ToJson(state.data[k])]]

\* TaggedCache.__setstate__ applied to the decoded document f on cache c:
\* the cache it leaves and whether it raised.
setstate(c, f) ==
    IF ~(f.hasTags /\ f.hasData) THEN [cache |-> c, raised |-> TRUE]
    ELSE IF ~f.tagsMap THEN [cache |-> EmptyCache, raised |-> TRUE]
    ELSE LET tags == [k \in Keys |-> FromJson(f.tags[k])]
         IN  IF ~f.dataMap
             THEN [cache |-> [data |-> EmptyDict, tags |-> tags], raised |-> TRUE]
             ELSE [cache |-> [data |-> [k \in Keys |-> FromJson(f.data[k])],
                              tags |-> tags],
                   raised |-> FALSE]

\* TaggedCache.load: json.load raises on a file that is not JSON.
load(c, f) ==
    IF f.kind = "garbage" THEN [cache |-> c, raised |-> TRUE]
    ELSE setstate(c, f)

\* TaggedCache.__init__: empty maps, then load if the file exists, with any
\* exception logged and swallowed.
construct(f) ==
    IF f.kind = "missing" THEN EmptyCache ELSE load(EmptyCache, f).cache

(***************************************************************************)
(* The remote client (ghclient.py).                                        *)
(***************************************************************************)
\* get_if_newer_than_cache's default max_age, 60 * 10 seconds.
max_age == 600
\* The clock when the process starts, and what one Tick adds to it.
StartTime == 1200
ClockStep == 300
MaxTicks == 1
\* The number of times the process is started.
MaxRuns == 2

Calls == {"c1", "c2"}
\* The one call at a time the update thread makes with run_until_complete.
UpdateCall == "c1"

NoResponse == [raised |-> FALSE, unmodified |-> FALSE, etag |-> PyNone,
               json |-> PyNone]

\* A call: where it is, its arguments, the key's tag and value when it
\* started, and what it did: the request sent (net), whether any of its
\* steps changed the cache, how it ended and what it returned.
IdleCall ==
    [pc |-> "idle", fn |-> "", key |-> "", tag0 |-> Absent, val0 |-> Absent,
     t0 |-> 0, status |-> "", ret |-> PyNone, net |-> FALSE,
     changed |-> FALSE, resp |-> NoResponse]

\* What the server may answer: a 200 with an ETAG header (or none) and a
\* JSON body, a 304 with no body, or no answer at all (session.get raises).
Answers ==
    [status : {"200"}, etag : {PyNone} \cup {PyStr(e) : e \in ETags},
     body : {PyJson(p) : p \in Payloads}]
    \cup {[status |-> "304", etag |-> e, body |-> PyNone] :
              e \in {PyNone} \cup {PyStr(x) : x \in ETags}}
    \cup {[status |-> "raise", etag |-> PyNone, body |-> PyNone]}

\* _get_json_response(url, etag=etag) with answer a: a 304 to a conditional
\* request has json = {}; otherwise the body is decoded, which raises on
\* the empty body of a 304.
get_json_response(etag, a) ==
    IF a.status = "raise" THEN [NoResponse EXCEPT !.raised = TRUE]
    ELSE IF etag # PyNone /\ a.status = "304"
    THEN [raised |-> FALSE, unmodified |-> TRUE, etag |-> a.etag,
          json |-> PyJson(EmptyObject)]
    ELSE IF a.status = "304" THEN [NoResponse EXCEPT !.raised = TRUE]
    ELSE [raised |-> FALSE, unmodified |-> FALSE, etag |-> a.etag,
          json |-> a.body]

\* A client that stores every response, for comparison.
stores_always(resp) == TRUE

\* get_cacheable_response: "if not resp.unmodified" guards set_with_tag.
stores(resp) == ~resp.unmodified

\* return resp, cache[key]: a KeyError when the key has no value.
Finish(cl, c, status) ==
    [cl EXCEPT !.pc = "done",
               !.status = IF c.data[cl.key] = Absent THEN "KeyError" ELSE status,
               !.ret = c.data[cl.key]]

\* Coroutines run on one event loop: between two awaits of one coroutine no
\* other coroutine runs.
LoopFree(c) == \A o \in Calls \ {c} : call[o].pc \notin {"set_value", "done"}
\* A finished coroutine hands its result to its caller at once.
NoneDone == \A c \in Calls : call[c].pc # "done"
Up == NoneDone /\ proc[1] \in {"fresh", "live"}
Policy == proc[2]
Runs == proc[3]

Step(cl, new) == [cl EXCEPT !.changed = cl.changed \/ new # cache]

\* TaggedCache(fn) at process start.
Construct ==
    /\ proc[1] = "down"
    /\ Runs < MaxRuns
    /\ cache' = construct(file)
    /\ proc' = <<"fresh", Policy, Runs + 1>>
    /\ UNCHANGED <<file, now, call, saved, allocVars, treeVars, fsVars, tz>>

\* The process exits and _cache_cleanup runs TaggedCache.save, possibly
\* while the update thread is inside set_with_tag.  The cache object and the
\* calls in flight are gone.
ExitSave ==
    /\ Up
    /\ file' = JsonDump(getstate(cache))
    /\ saved' = [has |-> TRUE, st |-> cache]
    /\ proc' = <<"down", Policy, Runs>>
    /\ cache' = EmptyCache
    /\ call' = [c \in Calls |-> IdleCall]
    /\ UNCHANGED <<now, allocVars, treeVars, fsVars, tz>>

\* The process is killed (mkdir exit sends SIGHUP): no atexit handler runs.
Kill ==
    /\ Up
    /\ proc' = <<"down", Policy, Runs>>
    /\ cache' = EmptyCache
    /\ call' = [c \in Calls |-> IdleCall]
    /\ UNCHANGED <<file, now, saved, allocVars, treeVars, fsVars, tz>>

\* time.time() advances; only get_if_newer_than_cache reads it.
Tick ==
    /\ Up /\ Policy = "time"
    /\ now < StartTime + MaxTicks * ClockStep
    /\ now' = now + ClockStep
    /\ UNCHANGED <<cache, file, proc, call, saved, allocVars, treeVars, fsVars, tz>>

\* get_cacheable_response(key, url, cache) up to its await: the request is
\* sent with the key's tag, if any, as If-None-Match.  Only the update
\* thread calls it, one call at a time (update_users / update_organizations).
CondSend(c, key) ==
    /\ Up /\ Policy = "etag"
    /\ \A o \in Calls : call[o].pc = "idle"
    /\ call' = [call EXCEPT ![c] =
                   [IdleCall EXCEPT !.pc = "await", !.fn = "cond", !.key = key,
                                    !.tag0 = cache.tags[key],
                                    !.val0 = cache.data[key],
                                    !.net = TRUE]]
    /\ proc' = <<"live", Policy, Runs>>
    /\ UNCHANGED <<cache, file, now, saved, allocVars, treeVars, fsVars, tz>>

\* The answer arrives: get_cacheable_response after its await, up to the
\* first statement of set_with_tag, or to the return when nothing is stored.
CondResponse(c, a) ==
    /\ call[c].pc = "await" /\ call[c].fn = "cond"
    /\ LoopFree(c)
    /\ LET etag == IF call[c].tag0 = Absent THEN PyNone ELSE call[c].tag0
           resp == get_json_response(etag, a)
           cl == [call[c] EXCEPT !.resp = resp]
       IN  IF resp.raised
           THEN /\ call' = [call EXCEPT ![c] =
                               [cl EXCEPT !.pc = "done", !.status = "raise"]]
                /\ cache' = cache
           ELSE IF stores(resp)
           THEN LET new == set_tag(cache, cl.key, resp.etag)
                IN  /\ cache' = new
                    /\ call' = [call EXCEPT ![c] =
                                   [Step(cl, new) EXCEPT !.pc = "set_value"]]
           ELSE /\ cache' = cache
                /\ call' = [call EXCEPT ![c] = Finish(cl, cache, "304")]
    /\ UNCHANGED <<file, proc, now, saved, allocVars, treeVars, fsVars, tz>>

\* A get_if_newer_than_cache that stamps the key with t0 before it sends
\* the request, for comparison.
NewerStart_stamps_first(c, key) ==
    /\ Up /\ Policy = "time"
    /\ call[c].pc = "idle"
    /\ LoopFree(c)
    /\ LET t0 == now
           cached_time == Get(cache.tags, key, PyFloat(0))
           cache_age == t0 - cached_time.n
           cl == [IdleCall EXCEPT !.fn = "newer", !.key = key, !.t0 = t0,
                                  !.tag0 = cache.tags[key],
                                  !.val0 = cache.data[key]]
           new == set_tag(cache, key, PyFloat(t0))
       IN  IF cache_age < max_age
           THEN /\ call' = [call EXCEPT ![c] = Finish(cl, cache, "cached")]
                /\ cache' = cache
           ELSE /\ call' = [call EXCEPT ![c] =
                               [Step(cl, new) EXCEPT !.pc = "await",
                                                     !.net = TRUE]]
                /\ cache' = new
    /\ proc' = <<"live", Policy, Runs>>
    /\ UNCHANGED <<file, now, saved, allocVars, treeVars, fsVars, tz>>

\* get_if_newer_than_cache(url, cache) up to its await or, when the cached
\* entry is young enough, to its return.
NewerStart(c, key) ==
    /\ Up /\ Policy = "time"
    /\ call[c].pc = "idle"
    /\ LoopFree(c)
    /\ LET t0 == now
           cached_time == Get(cache.tags, key, PyFloat(0))
           cache_age == t0 - cached_time.n
           cl == [IdleCall EXCEPT !.fn = "newer", !.key = key, !.t0 = t0,
                                  !.tag0 = cache.tags[key],
                                  !.val0 = cache.data[key]]
       IN  IF cache_age < max_age
           THEN call' = [call EXCEPT ![c] = Finish(cl, cache, "cached")]
           ELSE call' = [call EXCEPT ![c] = [cl EXCEPT !.pc = "await",
                                                        !.net = TRUE]]
    /\ proc' = <<"live", Policy, Runs>>
    /\ UNCHANGED <<cache, file, now, saved, allocVars, treeVars, fsVars, tz>>

\* The answer to the unconditional request arrives: up to the first
\* statement of set_with_tag(key, tag=t0, value=resp.json).
NewerResponse(c, a) ==
    /\ call[c].pc = "await" /\ call[c].fn = "newer"
    /\ LoopFree(c)
    /\ LET resp == get_json_response(PyNone, a)
           cl == [call[c] EXCEPT !.resp = resp]
       IN  IF resp.raised
           THEN /\ call' = [call EXCEPT ![c] =
                               [cl EXCEPT !.pc = "done", !.status = "raise"]]
                /\ cache' = cache
           ELSE LET new == set_tag(cache, cl.key, PyFloat(cl.t0))
                IN  /\ cache' = new
                    /\ call' = [call EXCEPT ![c] =
                                   [Step(cl, new) EXCEPT !.pc = "set_value"]]
    /\ UNCHANGED <<file, proc, now, saved, allocVars, treeVars, fsVars, tz>>

\* The second statement of set_with_tag and the return that follows it
\* (get_cacheable_response returns cache[key], get_if_newer_than_cache resp).
SetValue(c) ==
    /\ call[c].pc = "set_value"
    /\ proc[1] = "live"
    /\ LET cl == call[c]
           new == set_value(cache, cl.key, cl.resp.json)
       IN  /\ cache' = new
           /\ call' = [call EXCEPT ![c] =
                          [Step(cl, new) EXCEPT
                              !.pc = "done", !.status = "200",
                              !.ret = IF cl.fn = "cond" THEN new.data[cl.key]
                                      ELSE cl.resp.json]]
    /\ UNCHANGED <<file, proc, now, saved, allocVars, treeVars, fsVars, tz>>

\* The caller takes the result.
CallReturn(c) ==
    /\ call[c].pc = "done"
    /\ call' = [call EXCEPT ![c] = IdleCall]
    /\ UNCHANGED <<cache, file, proc, now, saved, allocVars, treeVars, fsVars, tz>>

\* The files a process may find: none, one that is not JSON, one written by
\* an earlier save, and JSON objects that lack a member or whose member is
\* not a mapping.
FileTag(policy) ==
    IF policy = "etag" THEN PyStr("W/a") ELSE PyFloat(StartTime - ClockStep)

GoodFile(policy) ==
    JsonDump([data |-> [EmptyDict EXCEPT !["k1"] = PyJson("p1")],
              tags |-> [EmptyDict EXCEPT !["k1"] = FileTag(policy)]])

InitialFiles(policy) ==
    {MissingFile, GarbageFile, GoodFile(policy),
     [GoodFile(policy) EXCEPT !.hasTags = FALSE],
     [GoodFile(policy) EXCEPT !.tagsMap = FALSE,
                              !.tags = [k \in Keys |-> JAbsent]],
     [GoodFile(policy) EXCEPT !.dataMap = FALSE,
                              !.data = [k \in Keys |-> JAbsent]]}

InitCache ==
    /\ \E policy \in {"etag", "time"} :
          /\ proc = <<"down", policy, 0>>
          /\ file \in InitialFiles(policy)
    /\ cache = EmptyCache
    /\ now = StartTime
    /\ call = [c \in Calls |-> IdleCall]
    /\ saved = [has |-> FALSE, st |-> EmptyCache]

NextCache ==
    \/ Construct
    \/ ExitSave
    \/ Kill
    \/ Tick
    \/ \E key \in Keys : CondSend(UpdateCall, key)
    \/ \E a \in Answers : CondResponse(UpdateCall, a)
    \/ \E c \in Calls, key \in Keys : NewerStart(c, key)
    \/ \E c \in Calls, a \in Answers : NewerResponse(c, a)
    \/ \E c \in Calls : SetValue(c)
    \/ \E c \in Calls : CallReturn(c)

(***************************************************************************)
(* The directory tree (directory_entry.py).  nodes maps the inode of each  *)
(* DirectoryEntry to the object: its class, parent_inode, entry_by_name    *)
(* (name -> inode of the child object), its attr dict (st_nlink, st_mtime, *)
(* st_ctime) and, for a RepoMetadataDirectory, _initialized.  entry is     *)
(* fuse.inode_entries[inode], the EntryInfo last registered for the inode. *)
(* An EntryInfo's attr is the attr dict of the object it names.            *)
(***************************************************************************)
User == "alice"
RepoName == "proj"
IsoDates == {"2024-01-01T00:00:00Z", "2024-01-02T00:00:00Z"}
CreatedAt == "2023-12-31T00:00:00Z"
\* An info document without the author date (the KeyError branch).
NoDate == ""
\* time.time() when the filesystem is mounted.
MountTime == 1790000000

\* The instant an ISO-8601 string with the Z suffix names, in seconds since
\* the epoch.
Timestamp(string_ts) ==
    CASE string_ts = "2023-12-31T00:00:00Z" -> 1703980800
      [] string_ts = "2024-01-01T00:00:00Z" -> 1704067200
      [] string_ts = "2024-01-02T00:00:00Z" -> 1704153600

\* The offsets from UTC of the hosts considered: UTC, UTC+1, UTC-5.
TimeZones == {0, 3600, 0 - 18000}

\* iso8601_string_to_posix: strptime, then time.mktime of the time tuple,
\* which reads the tuple as local time.
iso8601_string_to_posix(string_ts) == Timestamp(string_ts) - tz

Unknown == [known |-> FALSE, names |-> <<>>, dates |-> <<>>]

\* DirectoryEntry.__init__ once create_ino has returned: a directory with
\* link count 2, registered under its inode as a 'direntry' named ''.
\* h_last and h_lazy record, for the properties, the data of the last
\* update() that ran alone to its end and the number of update() calls
\* require_initialization has made.
DirectoryEntry(cls, parent_inode, timestamp) ==
    [cls |-> cls, parent_inode |-> parent_inode, entry_by_name |-> <<>>,
     st_nlink |-> 2, st_mtime |-> timestamp, st_ctime |-> timestamp,
     initialized |-> FALSE, entry |-> [type_ |-> "direntry", name |-> ""],
     h_last |-> Unknown, h_lazy |-> 0]

\* DirectoryEntry.add_dir(dirname, dirobj=child) on directory p, the child
\* object existing: the parent's link count goes up by one, and the entry
\* replaces whatever the name and the child's inode mapped to.
add_dir(ns, p, dirname, child) ==
    [ns EXCEPT ![p].st_nlink = @ + 1,
               ![p].entry_by_name = (dirname :> child) @@ @,
               ![child].entry = [type_ |-> "dir", name |-> dirname]]

\* An add_dir that makes the child with the parent's parent as its
\* parent_inode, for comparison.
add_new_dir_under_grandparent(ns, c, p, dirname, cls) ==
    LET r == create_ino(c)
        made == (r.ret :> DirectoryEntry(cls, ns[p].parent_inode, MountTime))
                    @@ ns
    IN  [nodes |-> add_dir(made, p, dirname, r.ret), ino |-> r.ino,
         inode |-> r.ret]

\* add_dir(dirname) with no dirobj, or with a RepoMetadataDirectory made for
\* it: the child is constructed with the inode create_ino returns.
add_new_dir(ns, c, p, dirname, cls) ==
    LET r == create_ino(c)
        made == (r.ret :> DirectoryEntry(cls, p, MountTime)) @@ ns
    IN  [nodes |-> add_dir(made, p, dirname, r.ret), ino |-> r.ino,
         inode |-> r.ret]

\* DirectoryEntry.__getitem__
Has(ns, d, name) == name \in DOMAIN ns[d].entry_by_name

Lazy(ns, d) == ns[d].cls \in {"RepoTagDirectory", "RepoBranchDirectory"}

(***************************************************************************)
(* Threads.  sched is the update thread's position in update_loop; rd is   *)
(* the filesystem thread's request; stk[t] is thread t's stack of update() *)
(* executions on tag and branch directories.                               *)
(***************************************************************************)
RefLists == {<<>>, <<"v1">>}
RepoLists ==
    {<<>>} \cup {<<[name |-> RepoName, updated_at |-> u]>> : u \in IsoDates}

\* The update passes followed: update_loop itself never stops.
MaxPasses == 2

\* h_both, h_upd and h_exc record, for the properties, whether 'tags' and
\* 'branches' both existed when update_repo began, the subtrees whose
\* update() the pass has called, and the fetch of an update() that raised.
SchedIdle ==
    [pc |-> "unborn", user_dir |-> 0, repos |-> <<>>, repo_dir |-> 0,
     pass |-> 1, h_both |-> FALSE, h_upd |-> {}, h_exc |-> ""]
ReadIdle ==
    [pc |-> "idle", d |-> 0, uninit |-> FALSE, nupd |-> 0, h_exc |-> ""]

Frame(d, solo) ==
    [d |-> d, pc |-> "fetch_list", names |-> <<>>, dates |-> <<>>, i |-> 1,
     cur |-> 0, solo |-> solo, same |-> FALSE,
     moved |-> FALSE, logged |-> FALSE]

Top(t) == stk[t][Len(stk[t])]
Running(t) == Len(stk[t]) > 0
Busy(d) == \E t \in Threads : \E k \in 1..Len(stk[t]) : stk[t][k].d = d

\* Thread t calls update() on directory d.  Every execution already in
\* progress on d stops being alone on it.
Call(t, d) ==
    LET m == [u \in Threads |->
                 [k \in 1..Len(stk[u]) |->
                     IF stk[u][k].d = d THEN [stk[u][k] EXCEPT !.solo = FALSE]
                     ELSE stk[u][k]]]
    IN  [m EXCEPT ![t] = Append(@, Frame(d, ~Busy(d)))]

\* Thread t is inside loop.run_until_complete.  Both threads run the one
\* event loop (GithubFileSystem.__init__, update_loop): run_until_complete
\* raises RuntimeError when the loop is running in the other thread.
InLoop(t) ==
    \/ Running(t) /\ Top(t).pc \in {"fetch_list", "fetch_info"}
    \/ t = "sched" /\ ~Running(t) /\ sched.pc = "get_repos"
LoopBusy(t) == \E u \in Threads \ {t} : InLoop(u)

SetTop(t, f) == [stk EXCEPT ![t][Len(stk[t])] = f]
Pop(t) == [stk EXCEPT ![t] = SubSeq(@, 1, Len(@) - 1)]

\* A wrapper that calls update() and leaves the flag alone, for comparison.
require_initialization_flag_unset(ns, d) == [ns EXCEPT ![d].h_lazy = @ + 1]

\* require_initialization, before it calls update(): the flag is set.
require_initialization(ns, d) ==
    [ns EXCEPT ![d].initialized = TRUE, ![d].h_lazy = @ + 1]

\* An update() that drops the children the remote no longer lists, for
\* comparison.
stale_entries_dropped(ns, d, names) ==
    {x \in DOMAIN ns[d].entry_by_name : \A k \in 1..Len(names) : names[k] # x}

\* The children update() removes at its end: none ("TODO remove entries
\* that are no longer there").
stale_entries(ns, d, names) == {}

\* The DirectoryEntry objects as the request handlers of fs.py see them:
\* each as a tree with its entries, an entry's attr being the attr dict of
\* the child object (add_dir: attr = dirobj.attr).
attr_of(ns, i) ==
    [st_nlink |-> ns[i].st_nlink, st_mtime |-> ns[i].st_mtime,
     st_ctime |-> ns[i].st_ctime, st_ino |-> i]
TreeView(ns) ==
    [i \in DOMAIN ns |->
        [entries |-> [x \in DOMAIN ns[i].entry_by_name |->
                         [inode |-> ns[i].entry_by_name[x],
                          attr |-> attr_of(ns, ns[i].entry_by_name[x])]]]]

\* DirectoryEntry.get_entries: '.' with the directory's own attr, '..' with
\* a dict of st_ino = parent_inode, then the children by name.
DirectoryEntry_get_entries(ns, d) ==
    [dot |-> attr_of(ns, d),
     dotdot |-> [st_ino |-> ns[d].parent_inode, st_mode |-> "S_IFDIR"],
     names |-> DOMAIN ns[d].entry_by_name]

\* An update() that stamps and logs every entry, for comparison.
changed_timestamp_always(st_ctime, mtime) == TRUE

\* "if attr['st_ctime'] != mtime" in RepoTagDirectory.update and
\* RepoBranchDirectory.update.
changed_timestamp(st_ctime, mtime) == st_ctime # mtime

RootInode == 1
Rest == <<apc, handed, cacheVars, fsVars, tz>>

\* FileSystem.init as GithubFileSystem.init needs it: self.root, the first
\* DirectoryEntry made (inode 1), which is its own parent.
make_root(c) ==
    LET r == create_ino(c)
    IN  [nodes |-> (r.ret :> DirectoryEntry("DirectoryEntry", RootInode, MountTime)),
         ino |-> r.ino, inode |-> r.ret]

\* GithubFileSystem.init: super().init, root.add_dir('users'),
\* root.add_dir('orgs'), and the update thread is started.
FsInit ==
    /\ sched.pc = "unborn"
    /\ LET r == make_root(ino)
           u == add_new_dir(r.nodes, r.ino, r.inode, "users", "DirectoryEntry")
           o == add_new_dir(u.nodes, u.ino, r.inode, "orgs", "DirectoryEntry")
       IN  /\ nodes' = o.nodes
           /\ ino' = o.ino
    /\ sched' = [SchedIdle EXCEPT !.pc = "update"]
    /\ UNCHANGED <<lock, rd, stk, Rest>>

\* update_users, for the monitored user: self.users[user], or add_dir(user)
\* on KeyError, and the call of run_until_complete(get_user_repos(user)).
SchedUser ==
    /\ sched.pc = "update"
    /\ LET users == nodes[RootInode].entry_by_name["users"]
           after == IF LoopBusy("sched") THEN "dead" ELSE "get_repos"
       IN  IF Has(nodes, users, User)
           THEN /\ sched' = [sched EXCEPT !.pc = after,
                                 !.user_dir = nodes[users].entry_by_name[User]]
                /\ UNCHANGED <<nodes, ino>>
           ELSE /\ LockAvailable("sched")
                /\ LET a == add_new_dir(nodes, ino, users, User, "DirectoryEntry")
                   IN  /\ nodes' = a.nodes
                       /\ ino' = a.ino
                       /\ sched' = [sched EXCEPT !.pc = after,
                                                 !.user_dir = a.inode]
    /\ UNCHANGED <<lock, rd, stk, Rest>>

\* run_until_complete(get_user_repos(user)) raises: nothing in update_loop
\* catches it and the update thread ends.
SchedReposRaise ==
    /\ sched.pc = "get_repos"
    /\ sched' = [sched EXCEPT !.pc = "dead"]
    /\ UNCHANGED <<nodes, ino, lock, rd, stk, Rest>>

\* run_until_complete(get_user_repos(user)) returns the repository list.
\* With no repository left, update_organizations finds no organization and
\* update_loop sleeps.
SchedRepos(repos) ==
    /\ sched.pc = "get_repos"
    /\ sched' = [sched EXCEPT !.pc = IF repos = <<>> THEN "sleep" ELSE "repo",
                              !.repos = repos]
    /\ UNCHANGED <<nodes, ino, lock, rd, stk, Rest>>

\* update_repo up to update_tags / update_branches: parent_obj[repo_name] or
\* add_dir(repo_name); st_mtime and st_ctime are set, and update_tags is
\* called, only when st_mtime differs from updated_at.
SchedRepo ==
    /\ sched.pc = "repo"
    /\ LET repo == sched.repos[1]
           p == sched.user_dir
           found == Has(nodes, p, repo.name)
           a == IF found
                THEN [nodes |-> nodes, ino |-> ino,
                      inode |-> nodes[p].entry_by_name[repo.name]]
                ELSE add_new_dir(nodes, ino, p, repo.name, "DirectoryEntry")
           updated_at == iso8601_string_to_posix(repo.updated_at)
           modified == a.nodes[a.inode].st_mtime # updated_at
       IN  /\ found \/ LockAvailable("sched")
           /\ ino' = a.ino
           /\ nodes' = IF modified
                       THEN [a.nodes EXCEPT
                                ![a.inode].st_mtime = updated_at,
                                ![a.inode].st_ctime =
                                    iso8601_string_to_posix(CreatedAt)]
                       ELSE a.nodes
           /\ sched' = [sched EXCEPT !.repo_dir = a.inode,
                            !.pc = IF modified THEN "tags" ELSE "branches",
                            !.h_both = found /\ Has(nodes, a.inode, "tags")
                                             /\ Has(nodes, a.inode, "branches")]
    /\ UNCHANGED <<lock, rd, stk, Rest>>

\* update_tags (name = 'tags') and update_branches (name = 'branches'): on
\* KeyError the subtree object is made and attached, not updated; otherwise
\* its update() is called.
SchedSubtree(name, cls, after) ==
    /\ sched.pc = name
    /\ LET p == sched.repo_dir
       IN  IF Has(nodes, p, name)
           THEN /\ IF LoopBusy("sched")
                   THEN /\ sched' = [sched EXCEPT !.pc = "dead"]
                        /\ stk' = stk
                   ELSE /\ sched' = [sched EXCEPT !.pc = name \o "_update",
                                                    !.h_upd = @ \cup {name}]
                        /\ stk' = Call("sched", nodes[p].entry_by_name[name])
                /\ UNCHANGED <<nodes, ino>>
           ELSE /\ LockAvailable("sched")
                /\ LET a == add_new_dir(nodes, ino, p, name, cls)
                   IN  /\ nodes' = a.nodes
                       /\ ino' = a.ino
                /\ sched' = [sched EXCEPT !.pc = after]
                /\ stk' = stk
    /\ UNCHANGED <<lock, rd, Rest>>

SchedTags == SchedSubtree("tags", "RepoTagDirectory", "branches")

SchedBranches == SchedSubtree("branches", "RepoBranchDirectory", "sleep")

\* time.sleep(self.update_rate) ends.
SchedWake ==
    /\ sched.pc = "sleep"
    /\ sched.pass < MaxPasses
    /\ sched' = [sched EXCEPT !.pc = "update", !.repos = <<>>,
                              !.pass = @ + 1, !.h_both = FALSE,
                              !.h_upd = {}]
    /\ UNCHANGED <<nodes, ino, lock, rd, stk, Rest>>

\* A filesystem request reads tag or branch directory d: the handler takes
\* the lock and calls d[name] (lookup) or d.get_entries() (readdir), both
\* wrapped by require_initialization.
ReadStart(d) ==
    /\ rd.pc = "idle"
    /\ d \in DOMAIN nodes /\ Lazy(nodes, d)
    /\ lock.owner = NoThread
    /\ lock' = Acquire("fs")
    /\ IF ~nodes[d].initialized
       THEN /\ nodes' = require_initialization(nodes, d)
            /\ stk' = IF LoopBusy("fs") THEN stk ELSE Call("fs", d)
            /\ rd' = [pc |-> IF LoopBusy("fs") THEN "raised" ELSE "update",
                      d |-> d, uninit |-> TRUE, nupd |-> 1, h_exc |-> ""]
       ELSE /\ rd' = [pc |-> "answer", d |-> d, uninit |-> FALSE,
                      nupd |-> 0, h_exc |-> ""]
            /\ UNCHANGED <<nodes, stk>>
    /\ UNCHANGED <<ino, sched, Rest>>

\* The wrapped function runs and the handler replies and releases the lock.
ReadAnswer ==
    /\ rd.pc = "answer"
    /\ lock' = Release("fs")
    /\ rd' = ReadIdle
    /\ UNCHANGED <<nodes, ino, sched, stk, Rest>>

\* update() raised inside the handler: the lock is released on the way out.
ReadFail ==
    /\ rd.pc = "raised"
    /\ lock' = Release("fs")
    /\ rd' = ReadIdle
    /\ UNCHANGED <<nodes, ino, sched, stk, Rest>>

\* An exception leaves every update() on thread t's stack.
Raise(t, exc) ==
    /\ stk' = [stk EXCEPT ![t] = <<>>]
    /\ IF t = "sched"
       THEN sched' = [sched EXCEPT !.pc = "dead", !.h_exc = exc] /\ rd' = rd
       ELSE rd' = [rd EXCEPT !.pc = "raised", !.h_exc = exc] /\ sched' = sched

\* update(): run_until_complete(get_tags / get_branches) raises.
FetchListRaise(t) ==
    /\ Running(t) /\ Top(t).pc = "fetch_list"
    /\ Raise(t, "list")
    /\ UNCHANGED <<nodes, ino, lock, Rest>>

\* update(): the list of tags or branches arrives.
FetchList(t, names) ==
    /\ Running(t) /\ Top(t).pc = "fetch_list"
    /\ stk' = SetTop(t, [Top(t) EXCEPT !.pc = "fetch_info", !.names = names])
    /\ UNCHANGED <<nodes, ino, lock, sched, rd, Rest>>

\* An update() that awaits each info inside its loop, after the entry is
\* looked up or added, for comparison.
FetchInfoRaise_in_loop(t) ==
    /\ Running(t) /\ Top(t).pc = "stamp"
    /\ Raise(t, "info")
    /\ UNCHANGED <<nodes, ino, lock, Rest>>

\* update(): one of the gathered get_commit_info / get_branch_info raises.
FetchInfoRaise(t) ==
    /\ Running(t) /\ Top(t).pc = "fetch_info"
    /\ Top(t).names # <<>>
    /\ Raise(t, "info")
    /\ UNCHANGED <<nodes, ino, lock, Rest>>

\* update(): the gathered infos arrive, one author date (or none) per name.
FetchInfo(t, dates) ==
    /\ Running(t) /\ Top(t).pc = "fetch_info"
    /\ dates \in [1..Len(Top(t).names) -> IsoDates \cup {NoDate}]
    /\ LET f == Top(t)
           data == [known |-> TRUE, names |-> f.names, dates |-> dates]
       IN  stk' = SetTop(t, [f EXCEPT
                                !.pc = IF f.names = <<>> THEN "return" ELSE "item",
                                !.dates = dates,
                                !.same = (nodes[f.d].h_last = data)])
    /\ UNCHANGED <<nodes, ino, lock, sched, rd, Rest>>

\* update(): entry = self[name].  __getitem__ is wrapped by
\* require_initialization: on a directory not yet initialized it sets the
\* flag and calls update() before looking the name up.  Only the update
\* thread finds the flag unset here: a request sets it before its update().
Item(t) ==
    /\ Running(t) /\ Top(t).pc = "item"
    /\ LET f == Top(t)
           name == f.names[f.i]
       IN  IF ~nodes[f.d].initialized
           THEN /\ nodes' = require_initialization(nodes, f.d)
                /\ IF LoopBusy(t)
                   THEN /\ stk' = [stk EXCEPT ![t] = <<>>]
                        /\ sched' = [sched EXCEPT !.pc = "dead"]
                   ELSE /\ stk' = Call(t, f.d)
                        /\ sched' = sched
           ELSE /\ stk' = SetTop(t,
                      IF Has(nodes, f.d, name)
                      THEN [f EXCEPT !.pc = "stamp",
                                     !.cur = nodes[f.d].entry_by_name[name]]
                      ELSE [f EXCEPT !.pc = "add"])
                /\ UNCHANGED <<nodes, sched>>
    /\ UNCHANGED <<ino, lock, rd, Rest>>

\* update(): except KeyError: entry = self.add_dir(name).
Add(t) ==
    /\ Running(t) /\ Top(t).pc = "add"
    /\ LockAvailable(t)
    /\ LET f == Top(t)
           a == add_new_dir(nodes, ino, f.d, f.names[f.i], "DirectoryEntry")
       IN  /\ nodes' = a.nodes
           /\ ino' = a.ino
           /\ stk' = SetTop(t, [f EXCEPT !.pc = "stamp", !.cur = a.inode])
    /\ UNCHANGED <<lock, sched, rd, Rest>>

\* update(): the entry's st_ctime and st_mtime are set from the author date
\* and the update is logged, when st_ctime differs from it.
Stamp(t) ==
    /\ Running(t) /\ Top(t).pc = "stamp"
    /\ LET f == Top(t)
           ts == f.dates[f.i]
           mtime == iso8601_string_to_posix(ts)
           hit == ts # NoDate /\ changed_timestamp(nodes[f.cur].st_ctime, mtime)
           new == IF hit
                  THEN [nodes EXCEPT ![f.cur].st_ctime = mtime,
                                     ![f.cur].st_mtime = mtime]
                  ELSE nodes
       IN  /\ nodes' = new
           /\ stk' = SetTop(t, [f EXCEPT
                         !.pc = IF f.i < Len(f.names) THEN "item" ELSE "return",
                         !.i = IF f.i < Len(f.names) THEN f.i + 1 ELSE f.i,
                         !.moved = f.moved \/ new # nodes,
                         !.logged = f.logged \/ hit])
    /\ UNCHANGED <<ino, lock, sched, rd, Rest>>

\* update() returns to its caller: to the update() that looked a name up,
\* to update_tags / update_branches, or to the wrapped read.
Return(t) ==
    /\ Running(t) /\ Top(t).pc = "return"
    /\ LET f == Top(t)
           stale == stale_entries(nodes, f.d, f.names)
       IN  nodes' = [nodes EXCEPT
                        ![f.d].entry_by_name =
                            [x \in DOMAIN @ \ stale |-> @[x]],
                        ![f.d].h_last =
                            IF f.solo
                            THEN [known |-> TRUE, names |-> f.names,
                                  dates |-> f.dates]
                            ELSE Unknown]
    /\ stk' = Pop(t)
    /\ IF Len(stk[t]) > 1 THEN UNCHANGED <<sched, rd>>
       ELSE IF t = "sched"
       THEN /\ sched' = [sched EXCEPT !.pc = IF sched.pc = "tags_update"
                                             THEN "branches" ELSE "sleep"]
            /\ rd' = rd
       ELSE /\ rd' = [rd EXCEPT !.pc = "answer"]
            /\ sched' = sched
    /\ UNCHANGED <<ino, lock, Rest>>

InitTree ==
    /\ nodes = <<>>
    /\ sched = SchedIdle
    /\ rd = ReadIdle
    /\ stk = [t \in Threads |-> <<>>]

Next ==
    \/ FsInit
    \/ SchedUser
    \/ SchedReposRaise
    \/ \E repos \in RepoLists : SchedRepos(repos)
    \/ SchedRepo
    \/ SchedTags
    \/ SchedBranches
    \/ SchedWake
    \/ \E d \in 1..ino : ReadStart(d)
    \/ ReadAnswer
    \/ ReadFail
    \/ \E t \in Threads : FetchListRaise(t)
    \/ \E t \in Threads, names \in RefLists : FetchList(t, names)
    \/ \E t \in Threads : FetchInfoRaise(t)
    \/ \E t \in Threads, dates \in UNION {[1..n -> IsoDates \cup {NoDate}] : n \in 0..1} :
          FetchInfo(t, dates)
    \/ \E t \in Threads : Item(t)
    \/ \E t \in Threads : Add(t)
    \/ \E t \in Threads : Stamp(t)
    \/ \E t \in Threads : Return(t)


(***************************************************************************)
(* The filesystem service of fs.py: FileSystem.trees maps the inode of     *)
(* each PathTree to the object; a PathTree has entries (name -> EntryInfo) *)
(* and inode_to_entry (inode -> EntryInfo).  An attr dict is a record; a   *)
(* key the dict does not have is 0 (inodes start at 1, sizes of absent     *)
(* keys are never read).                                                   *)
(***************************************************************************)
\* Readable('file1\n').encode('utf-8') and the like, as bytes.
FileBytes(digit) == <<102, 105, 108, 101, digit, 10>>
NoObj == [kind |-> "none", bytes |-> <<>>, inode |-> 0]
Readable(bytes) == [kind |-> "str", bytes |-> bytes, inode |-> 0]
TreeObj(inode) == [kind |-> "tree", bytes |-> <<>>, inode |-> inode]

dir_attr == [st_mode |-> "S_IFDIR", st_nlink |-> 2, st_size |-> 0,
             st_ino |-> 0, inode |-> 0]
file_attr == [st_mode |-> "S_IFREG", st_nlink |-> 1, st_size |-> 0,
              st_ino |-> 0, inode |-> 0]

\* PathTree.__init__: the object is registered in fuse.trees under the
\* inode create_ino returns.
PathTree(ts, c, parent_inode) ==
    LET r == create_ino(c)
        tree == [parent_inode |-> parent_inode, entries |-> <<>>,
                 names |-> <<>>, inode_to_entry |-> <<>>,
                 attr |-> [dir_attr EXCEPT !.inode = r.ret]]
    IN  [trees |-> (r.ret :> tree) @@ ts, ino |-> r.ino, inode |-> r.ret]

\* self.entries[name] = entry; self.inode_to_entry[inode] = entry.  names
\* keeps the order of insertion, which get_entries follows.
put_entry(tree, entry) ==
    [tree EXCEPT !.entries = (entry.name :> entry) @@ @,
                 !.names = IF entry.name \in DOMAIN tree.entries THEN @
                           ELSE Append(@, entry.name),
                 !.inode_to_entry = (entry.inode :> entry) @@ @]

\* PathTree.add_file
PathTree_add_file(ts, c, t, fn, obj) ==
    LET r == create_ino(c)
        entry == [type_ |-> "file", inode |-> r.ret, name |-> fn, obj |-> obj,
                  attr |-> [file_attr EXCEPT !.st_ino = r.ret,
                                             !.st_size = Len(obj.bytes)]]
    IN  [trees |-> [ts EXCEPT ![t] = put_entry(@, entry)], ino |-> r.ino]

\* PathTree.add_dir with no tree given
PathTree_add_dir(ts, c, t, dirname) ==
    LET made == PathTree(ts, c, t)
        entry == [type_ |-> "dir", inode |-> made.inode, name |-> dirname,
                  obj |-> TreeObj(made.inode),
                  attr |-> [dir_attr EXCEPT !.st_ino = made.inode]]
    IN  [trees |-> [made.trees EXCEPT
                       ![t] = put_entry([@ EXCEPT !.attr.st_nlink = @ + 1],
                                        entry)],
         ino |-> made.ino]

\* PathTree.get_entries: the names listed, in order.
PathTree_get_entries(tree) == <<".", "..">> \o tree.names

\* bytes[offset:offset + size] for size, offset >= 0
Slice(bytes, offset, size) ==
    LET last == IF offset + size < Len(bytes) THEN offset + size ELSE Len(bytes)
    IN  IF offset >= last THEN <<>> ELSE SubSeq(bytes, offset + 1, last)

\* Readable.read
Readable_read(obj, size, offset) == Slice(obj.bytes, offset, size)

\* What a handler did: the one reply it sent, or none when an exception
\* left the handler before any reply_* call.
NoReply ==
    [kind |-> "none", err |-> "", ino |-> 0, attr |-> dir_attr,
     names |-> <<>>, buf |-> <<>>]
ReplyErr(e) == [NoReply EXCEPT !.kind = "err", !.err = e]
ReplyAttr(a) == [NoReply EXCEPT !.kind = "attr", !.attr = a]
ReplyEntry(i, a) == [NoReply EXCEPT !.kind = "entry", !.ino = i, !.attr = a]
ReplyReaddir(n) == [NoReply EXCEPT !.kind = "readdir", !.names = n]
ReplyBuf(b) == [NoReply EXCEPT !.kind = "buf", !.buf = b]

\* A find_owner that knows no inode, for comparison.
find_owner_nothing(ts, c, inode) == 0

\* FileSystem.find_owner: the inode of the tree that has the entry, or 0
\* for ValueError.
find_owner(ts, c, inode) ==
    IF inode <= c /\ \E t \in DOMAIN ts : inode \in DOMAIN ts[t].inode_to_entry
    THEN CHOOSE t \in DOMAIN ts : inode \in DOMAIN ts[t].inode_to_entry
    ELSE 0

\* FileSystem.getattr
getattr(ts, c, i) ==
    IF i \in DOMAIN ts THEN ReplyAttr(ts[i].attr)
    ELSE LET tree == find_owner(ts, c, i)
         IN  IF tree = 0 THEN ReplyErr("ENOENT")
             ELSE ReplyAttr(ts[tree].inode_to_entry[i].attr)

\* FileSystem.lookup: self.trees[parent_inode] is not guarded.
lookup(ts, parent_inode, name) ==
    IF parent_inode \notin DOMAIN ts THEN NoReply
    ELSE IF name \notin DOMAIN ts[parent_inode].entries THEN ReplyErr("ENOENT")
    ELSE LET entry == ts[parent_inode].entries[name]
         IN  ReplyEntry(entry.inode, entry.attr)

\* FileSystem.readdir
readdir(ts, i) ==
    IF i \notin DOMAIN ts THEN NoReply
    ELSE ReplyReaddir(PathTree_get_entries(ts[i]))

\* FileSystem.read and PathTree.read: a PathTree as obj has no
\* read(size, offset), and the call raises TypeError.
read(ts, c, i, size, offset) ==
    LET tree == find_owner(ts, c, i)
    IN  IF tree = 0 THEN ReplyErr("EIO")
        ELSE LET obj == ts[tree].inode_to_entry[i].obj
             IN  CASE obj.kind = "none" -> ReplyBuf(<<>>)
                   [] obj.kind = "str" -> ReplyBuf(Readable_read(obj, size, offset))
                   [] obj.kind = "tree" -> NoReply

\* The inodes, names, sizes and offsets the kernel asks about.
MaxFsIno == 8
MaxSize == 7
FsInodes == 0..MaxFsIno
FsNames == {"file1", "dir1", "users", "exit"}

Unmounted ==
    [op |-> "unmounted", ino |-> 0, name |-> "", size |-> 0, offset |-> 0,
     reply |-> NoReply, signal |-> FALSE]
Request(op, i, name, size, offset, reply) ==
    [op |-> op, ino |-> i, name |-> name, size |-> size, offset |-> offset,
     reply |-> reply, signal |-> FALSE]
Serving == fsreq.op # "unmounted" /\ ~fsreq.signal

FsRest == <<lock, apc, handed, cacheVars, treeVars, tz, payload>>

\* FileSystem.init: the root tree with three files and three directories.
FileSystem_init ==
    /\ fsreq.op = "unmounted"
    /\ LET root == PathTree(<<>>, 0, 1)
           f1 == PathTree_add_file(root.trees, root.ino, root.inode, "file1",
                                   Readable(FileBytes(49)))
           f2 == PathTree_add_file(f1.trees, f1.ino, root.inode, "file2",
                                   Readable(FileBytes(50)))
           f3 == PathTree_add_file(f2.trees, f2.ino, root.inode, "file3",
                                   Readable(FileBytes(51)))
           d1 == PathTree_add_dir(f3.trees, f3.ino, root.inode, "dir1")
           d2 == PathTree_add_dir(d1.trees, d1.ino, root.inode, "dir2")
           d3 == PathTree_add_dir(d2.trees, d2.ino, root.inode, "dir3")
       IN  /\ trees' = d3.trees
           /\ ino' = d3.ino
    /\ fsreq' = [Unmounted EXCEPT !.op = "init"]
    /\ UNCHANGED FsRest

Getattr(i) ==
    /\ Serving
    /\ fsreq' = Request("getattr", i, "", 0, 0, getattr(trees, ino, i))
    /\ UNCHANGED <<trees, ino, FsRest>>

Lookup(parent_inode, name) ==
    /\ Serving
    /\ fsreq' = Request("lookup", parent_inode, name, 0, 0,
                        lookup(trees, parent_inode, name))
    /\ UNCHANGED <<trees, ino, FsRest>>

Readdir(i) ==
    /\ Serving
    /\ fsreq' = Request("readdir", i, "", 0, 0, readdir(trees, i))
    /\ UNCHANGED <<trees, ino, FsRest>>

Read(i, size, offset) ==
    /\ Serving
    /\ fsreq' = Request("read", i, "", size, offset,
                        read(trees, ino, i, size, offset))
    /\ UNCHANGED <<trees, ino, FsRest>>

\* GithubFileSystem.mkdir: SIGHUP to the own process for 'exit' under the
\* root, then reply_err(req, errno.EIO).  Whether the reply is still sent
\* once the signal is out depends on how fast the process goes down.
Mkdir(parent, name, replied) ==
    /\ Serving
    /\ LET exit == parent = RootInode /\ name = "exit"
       IN  fsreq' = [Request("mkdir", parent, name, 0, 0,
                             IF exit /\ ~replied THEN NoReply
                             ELSE ReplyErr("EIO"))
                        EXCEPT !.signal = exit]
    /\ UNCHANGED <<trees, ino, FsRest>>

InitFs ==
    /\ trees = <<>>
    /\ fsreq = Unmounted

NextFs ==
    \/ FileSystem_init
    \/ \E i \in FsInodes : Getattr(i)
    \/ \E i \in FsInodes, name \in FsNames : Lookup(i, name)
    \/ \E i \in FsInodes : Readdir(i)
    \/ \E i \in FsInodes, size \in 0..MaxSize, offset \in 0..MaxSize :
          Read(i, size, offset)
    \/ \E i \in FsInodes, name \in FsNames, replied \in BOOLEAN :
          Mkdir(i, name, replied)

(***************************************************************************)
(* String payloads (directory_entry.py, ReadableString; fs.py, Readable):  *)
(* a str, as the sequence of its code points, read through the bytes of    *)
(* its UTF-8 encoding.                                                     *)
(***************************************************************************)
\* 'a', e with acute accent, the euro sign, an emoji: characters of one,
\* two, three and four bytes.
CodePoints == {97, 233, 8364, 128512}
\* Longest string read, in characters.
MaxLen == 2
\* Largest size and offset of a read.
MaxRead == 9

Strings == UNION {[1..n -> CodePoints] : n \in 0..MaxLen}

\* str.encode('utf-8') of one character.
encode_char(cp) ==
    IF cp < 128 THEN <<cp>>
    ELSE IF cp < 2048 THEN <<192 + (cp \div 64), 128 + (cp % 64)>>
    ELSE IF cp < 65536
    THEN <<224 + (cp \div 4096), 128 + ((cp \div 64) % 64), 128 + (cp % 64)>>
    ELSE <<240 + (cp \div 262144), 128 + ((cp \div 4096) % 64),
           128 + ((cp \div 64) % 64), 128 + (cp % 64)>>

\* str.encode('utf-8')
RECURSIVE encode(_)
encode(s) == IF s = <<>> THEN <<>> ELSE encode_char(Head(s)) \o encode(Tail(s))

\* A read that slices the characters and encodes the slice, for comparison.
ReadableString_read_chars(s, size, offset) == encode(Slice(s, offset, size))

\* ReadableString.read and Readable.read:
\* self.encode('utf-8')[offset:offset + size]
ReadableString_read(s, size, offset) == Slice(encode(s), offset, size)

NoPayload == [s |-> <<>>, op |-> "none", size |-> 0, offset |-> 0, ret |-> <<>>]

\* obj.read(size, offset) on the payload.
PayloadRead(size, offset) ==
    /\ payload' = [payload EXCEPT
                      !.op = "read", !.size = size, !.offset = offset,
                      !.ret = ReadableString_read(payload.s, size, offset)]
    /\ UNCHANGED <<allocVars, cacheVars, treeVars, trees, fsreq, tz>>

InitRead == payload \in {[NoPayload EXCEPT !.s = s] : s \in Strings}

NextRead == \E size \in 0..MaxRead, offset \in 0..MaxRead : PayloadRead(size, offset)

\* The update thread alone: no filesystem request arrives.
NextZone ==
    \/ FsInit
    \/ SchedUser
    \/ SchedReposRaise
    \/ \E repos \in RepoLists : SchedRepos(repos)
    \/ SchedRepo
    \/ SchedTags
    \/ SchedBranches
    \/ SchedWake
    \/ FetchListRaise("sched")
    \/ \E names \in RefLists : FetchList("sched", names)
    \/ FetchInfoRaise("sched")
    \/ \E dates \in UNION {[1..n -> IsoDates \cup {NoDate}] : n \in 0..1} :
          FetchInfo("sched", dates)
    \/ Item("sched")
    \/ Add("sched")
    \/ Stamp("sched")
    \/ Return("sched")

\* A cache that takes no part.
CacheIdle ==
    /\ proc = <<"down", "etag", 0>>
    /\ file = MissingFile
    /\ cache = EmptyCache
    /\ now = StartTime
    /\ call = [c \in Calls |-> IdleCall]
    /\ saved = [has |-> FALSE, st |-> EmptyCache]

\* The host's clock is UTC.
Init == InitAlloc /\ InitTree /\ InitFs /\ CacheIdle /\ tz = 0 /\ payload = NoPayload

InitCacheSpec == InitAlloc /\ InitTree /\ InitFs /\ InitCache /\ tz = 0 /\ payload = NoPayload

InitZone == InitAlloc /\ InitTree /\ InitFs /\ CacheIdle /\ tz \in TimeZones /\ payload = NoPayload

Spec == Init /\ [][Next]_vars

SpecAlloc == Init /\ [][NextAlloc]_vars

SpecCache == InitCacheSpec /\ [][NextCache]_vars

SpecZone == InitZone /\ [][NextZone]_vars

SpecFs == Init /\ [][NextFs]_vars

InitReadSpec == InitAlloc /\ InitTree /\ InitFs /\ CacheIdle /\ tz = 0 /\ InitRead

SpecRead == InitReadSpec /\ [][NextRead]_vars

(***************************************************************************)
(* C1. Every inode number handed out by create_ino and every member of     *)
(* every range returned by create_ino_range (the closed range between the  *)
(* two returned bounds) is distinct from, and greater than, every number   *)
(* handed out before it, for any interleaving of the two threads.          *)
(***************************************************************************)
Members(r) == r.lo .. r.hi

C1_InodesDistinctIncreasing ==
    \A i, j \in 1..Len(handed) :
        i < j => \A a \in Members(handed[i]), b \in Members(handed[j]) : a < b

(***************************************************************************)
(* C4. In every state of a constructed TaggedCache in which no call is     *)
(* between the two statements of set_with_tag, a key has a tag if and only *)
(* if it has a cached value.                                               *)
(***************************************************************************)
HasTag(c, k) == c.tags[k] # Absent
HasValue(c, k) == c.data[k] # Absent

C4_TagIffValue ==
    (proc[1] \in {"fresh", "live"} /\ \A c \in Calls : call[c].pc # "set_value")
        => \A k \in Keys : HasTag(cache, k) <=> HasValue(cache, k)

(***************************************************************************)
(* C8. When get_cacheable_response has sent a conditional request for a    *)
(* key that had tag T and value V and the answer was 304 Not Modified, the *)
(* call returns V, and the key's tag and value in the cache are still T    *)
(* and V: the call changed nothing.                                        *)
(***************************************************************************)
Got304(cl) ==
    /\ cl.pc = "done" /\ cl.fn = "cond"
    /\ cl.resp.unmodified
    /\ cl.tag0 # Absent /\ cl.val0 # Absent

C8_NotModifiedKeepsCache ==
    \A c \in Calls :
        Got304(call[c]) =>
            /\ call[c].status = "304"
            /\ call[c].ret = call[c].val0
            /\ ~call[c].changed
            /\ cache.tags[call[c].key] = call[c].tag0
            /\ cache.data[call[c].key] = call[c].val0

C8_Witness ==
    \E c \in Calls :
        /\ Got304(call[c])
        /\ call[c].ret = PyJson("p2")
        /\ cache.tags[call[c].key] = PyStr("W/b")

(***************************************************************************)
(* C9. get_if_newer_than_cache for a key whose stored tag is less than     *)
(* max_age older than now returns the cached value, sends no request and   *)
(* changes nothing in the cache; otherwise it sends an unconditional       *)
(* request and, when the answer arrives, the key's tag is the call's now   *)
(* and its value the payload fetched.                                      *)
(***************************************************************************)
Young(cl) == cl.tag0 # Absent /\ cl.t0 - cl.tag0.n < max_age

C9_NewerThanCache ==
    \A c \in Calls :
        (call[c].pc = "done" /\ call[c].fn = "newer") =>
            IF Young(call[c])
            THEN /\ call[c].status = "cached"
                 /\ call[c].ret = call[c].val0
                 /\ call[c].ret # Absent
                 /\ ~call[c].net
                 /\ ~call[c].changed
            ELSE /\ call[c].net
                 /\ call[c].status = "200" =>
                       /\ cache.tags[call[c].key] = PyFloat(call[c].t0)
                       /\ cache.data[call[c].key] = call[c].resp.json

(***************************************************************************)
(* C10. A cache constructed from the file that save wrote has the same     *)
(* key-to-value map and the same key-to-tag map as the cache that was      *)
(* saved.                                                                  *)
(***************************************************************************)
C10_SaveLoadRoundTrip ==
    (proc[1] = "fresh" /\ saved.has) => cache = saved.st

C10_Witness ==
    /\ proc[1] = "fresh" /\ saved.has
    /\ \E k \in Keys : HasTag(cache, k) /\ cache.tags[k] # PyNone
    /\ \E k \in Keys : HasTag(cache, k) /\ cache.tags[k] = PyNone
    /\ \E k \in Keys : HasValue(cache, k)


(***************************************************************************)
(* C11. A TaggedCache constructed from a missing or malformed file has an  *)
(* empty value map and an empty tag map, and one constructed from a        *)
(* well-formed file has both maps of the file: no cache is constructed     *)
(* with only one of its two maps loaded.                                   *)
(***************************************************************************)
WellFormed(f) ==
    f.kind = "doc" /\ f.hasTags /\ f.hasData /\ f.tagsMap /\ f.dataMap

C11_LoadBothOrNone ==
    proc[1] = "fresh" =>
        IF WellFormed(file)
        THEN cache = [data |-> [k \in Keys |-> FromJson(file.data[k])],
                      tags |-> [k \in Keys |-> FromJson(file.tags[k])]]
        ELSE cache = EmptyCache

(***************************************************************************)
(* C26. When the HTTP request of get_cacheable_response or of              *)
(* get_if_newer_than_cache raises, the call has stored nothing: the step   *)
(* in which the exception arrives leaves the value and the tag of every    *)
(* key as they are, and the call has changed neither before it.            *)
(***************************************************************************)
C26_FailedRequestKeepsCache ==
    [][\A c \in Calls :
          call[c].pc = "await" /\ call'[c].pc = "done"
              /\ call'[c].status = "raise" =>
                  /\ \A k \in Keys : /\ cache'.data[k] = cache.data[k]
                                     /\ cache'.tags[k] = cache.tags[k]
                  /\ ~call'[c].changed]_vars

\* A call for a cached key has raised, and the key has the tag and the
\* value it had when the call began.
C26_Witness ==
    \E c \in Calls :
        /\ call[c].pc = "done" /\ call[c].status = "raise"
        /\ call[c].tag0 # Absent /\ call[c].val0 # Absent
        /\ cache.tags[call[c].key] = call[c].tag0
        /\ cache.data[call[c].key] = call[c].val0

(***************************************************************************)
(* C2. In every reachable state, each directory's st_nlink equals 2 plus   *)
(* the number of directory entries in its name-to-entry map.               *)
(***************************************************************************)
DirNames(i) ==
    {x \in DOMAIN nodes[i].entry_by_name :
        nodes[nodes[i].entry_by_name[x]].entry.type_ = "dir"}

C2_LinkCount ==
    \A i \in DOMAIN nodes : nodes[i].st_nlink = 2 + Cardinality(DirNames(i))

(***************************************************************************)
(* C3. Once a name in a directory resolves to an inode, every later lookup *)
(* of that name in that directory gives the same inode, and the inode      *)
(* keeps the name and the parent it was registered with.                   *)
(***************************************************************************)
C3_PathKeepsInode ==
    [][\A i \in DOMAIN nodes :
          /\ \A x \in DOMAIN nodes[i].entry_by_name :
                nodes'[i].entry_by_name[x] = nodes[i].entry_by_name[x]
          /\ nodes[i].entry.type_ = "dir" =>
                /\ nodes'[i].entry = nodes[i].entry
                /\ nodes'[i].parent_inode = nodes[i].parent_inode]_vars

(***************************************************************************)
(* C5. require_initialization calls update() at most once for a tag or     *)
(* branch directory, however many reads follow, and no child name of such  *)
(* a directory is added twice: no two inodes are registered under the same *)
(* name of the same directory.                                             *)
(***************************************************************************)
AddedTwice(d) ==
    \E i, j \in DOMAIN nodes :
        /\ i # j
        /\ nodes[i].parent_inode = d /\ nodes[j].parent_inode = d
        /\ nodes[i].entry.type_ = "dir" /\ nodes[j].entry.type_ = "dir"
        /\ nodes[i].entry.name = nodes[j].entry.name

C5_OneUpdateNoDuplicate ==
    \A d \in DOMAIN nodes :
        Lazy(nodes, d) => nodes[d].h_lazy <= 1 /\ ~AddedTwice(d)

(***************************************************************************)
(* C6. A request that reads a tag or branch directory found uninitialized  *)
(* calls update() once before it answers, and the directory is initialized *)
(* from that call on, whether update() returns or raises; a request that   *)
(* finds the directory initialized calls no update(), so after a failed    *)
(* first fetch no later read fetches again.                                *)
(***************************************************************************)
C6_InitializedByFirstRead ==
    /\ rd.pc \in {"update", "answer", "raised"} =>
          /\ nodes[rd.d].initialized
          /\ rd.nupd = IF rd.uninit THEN 1 ELSE 0
    /\ rd.pc \in {"update", "raised"} => rd.uninit
    /\ \A d \in DOMAIN nodes :
          Lazy(nodes, d) =>
              /\ nodes[d].h_lazy <= 1
              /\ nodes[d].initialized <=> nodes[d].h_lazy = 1

C6_Witness ==
    /\ rd.pc = "raised" /\ rd.uninit /\ rd.nupd = 1
    /\ nodes[rd.d].initialized
    /\ nodes[rd.d].entry_by_name = <<>>

(***************************************************************************)
(* C7. An update() of a tag or branch directory that runs alone and is     *)
(* given the names and dates the previous update() of that directory was   *)
(* given changes no child's st_mtime or st_ctime and logs no 'updated'     *)
(* event.                                                                  *)
(***************************************************************************)
C7_UnchangedDataNoChange ==
    \A t \in Threads : \A k \in 1..Len(stk[t]) :
        (stk[t][k].solo /\ stk[t][k].same) =>
            ~stk[t][k].moved /\ ~stk[t][k].logged

C7_Witness ==
    \E t \in Threads :
        /\ Running(t)
        /\ Top(t).pc = "return" /\ Top(t).solo /\ Top(t).same
        /\ Top(t).names # <<>> /\ Top(t).dates[1] # NoDate
        /\ nodes[Top(t).cur].st_ctime = iso8601_string_to_posix(Top(t).dates[1])

(***************************************************************************)
(* C12. When an update pass has completed in which the remote returned a   *)
(* repository for the monitored user, lookup(users_inode, user) and then   *)
(* lookup(user_inode, repository) both reply with an entry, and the        *)
(* repository's st_mtime is the POSIX timestamp of its updated_at.         *)
(***************************************************************************)
C12_LookupAfterPass ==
    (sched.pc = "sleep" /\ sched.repos # <<>>) =>
        LET users == nodes[RootInode].entry_by_name["users"]
            u == lookup(TreeView(nodes), users, User)
            repo == sched.repos[1]
            r == lookup(TreeView(nodes), u.ino, repo.name)
        IN  /\ u.kind = "entry"
            /\ r.kind = "entry"
            /\ r.attr.st_mtime = Timestamp(repo.updated_at)

(***************************************************************************)
(* C13. readdir on the root inode after init lists exactly the names '.',  *)
(* '..', 'users' and 'orgs'.                                               *)
(***************************************************************************)
Listed(reply) == {reply.names[k] : k \in 1..Len(reply.names)}

C13_RootListing ==
    (fsreq.op = "readdir" /\ fsreq.ino = RootInode) =>
        /\ fsreq.reply.kind = "readdir"
        /\ Listed(fsreq.reply) = {".", "..", "users", "orgs"}

(***************************************************************************)
(* C14. Every lookup(parent_inode, name) gets a reply: 'no such entry'     *)
(* when parent_inode is not the inode of a directory or the directory has  *)
(* no such name, and otherwise the child's inode and attributes.           *)
(***************************************************************************)
C14_LookupReplies ==
    fsreq.op = "lookup" =>
        IF /\ fsreq.ino \in DOMAIN trees
           /\ fsreq.name \in DOMAIN trees[fsreq.ino].entries
        THEN /\ fsreq.reply.kind = "entry"
             /\ fsreq.reply.ino = trees[fsreq.ino].entries[fsreq.name].inode
             /\ fsreq.reply.attr = trees[fsreq.ino].entries[fsreq.name].attr
        ELSE fsreq.reply = ReplyErr("ENOENT")

(***************************************************************************)
(* C15. getattr(ino) replies with the attributes of the directory or file  *)
(* that has the inode, for every inode of the tree, and with 'no such      *)
(* entry' for every other inode.                                           *)
(***************************************************************************)
EntriesWith(i) ==
    {trees[t].inode_to_entry[i] :
        t \in {u \in DOMAIN trees : i \in DOMAIN trees[u].inode_to_entry}}

Payloads16(i) ==
    {e.obj.bytes : e \in {x \in EntriesWith(i) : x.obj.kind = "str"}}

C16_ReadReplies ==
    fsreq.op = "read" =>
        IF Payloads16(fsreq.ino) # {}
        THEN /\ fsreq.reply.kind = "buf"
             /\ \E b \in Payloads16(fsreq.ino) :
                   fsreq.reply.buf = Slice(b, fsreq.offset, fsreq.size)
        ELSE fsreq.reply = ReplyErr("EIO")

(***************************************************************************)
(* C17. Every mkdir(parent, name) is answered 'not permitted', and the     *)
(* termination signal is sent exactly when parent is the root and name is  *)
(* 'exit'.                                                                 *)
(***************************************************************************)
C17_MkdirNotPermitted ==
    fsreq.op = "mkdir" =>
        /\ fsreq.reply = ReplyErr("EPERM")
        /\ fsreq.signal <=> (fsreq.ino = RootInode /\ fsreq.name = "exit")

(***************************************************************************)
(* C18. The update thread never ends: a remote fetch that raises leaves it *)
(* running, so that a next pass follows the sleep.                         *)
(***************************************************************************)
C18_SchedulerSurvives == sched.pc # "dead"

(***************************************************************************)
(* C19. No step removes a name from a directory: every name a directory    *)
(* has it keeps, also through an update() whose remote list lacks it.      *)
(***************************************************************************)
C19_NamesNeverShrink ==
    [][\A i \in DOMAIN nodes :
          DOMAIN nodes[i].entry_by_name \subseteq DOMAIN nodes'[i].entry_by_name]_vars

C19_Witness ==
    \E d \in DOMAIN nodes :
        /\ Lazy(nodes, d)
        /\ nodes[d].h_last.known /\ nodes[d].h_last.names = <<>>
        /\ DOMAIN nodes[d].entry_by_name # {}

(***************************************************************************)
(* C20. Every step that adds an inode, changes a directory's entry map or  *)
(* link count, or sets a subtree's initialized flag is taken while the     *)
(* filesystem lock is held.                                                *)
(***************************************************************************)
Mutated(i) ==
    \/ i \notin DOMAIN nodes
    \/ nodes'[i].entry_by_name # nodes[i].entry_by_name
    \/ nodes'[i].st_nlink # nodes[i].st_nlink
    \/ nodes'[i].initialized # nodes[i].initialized

C20_MutationUnderLock ==
    [][(sched.pc # "unborn" /\ \E i \in DOMAIN nodes' : Mutated(i))
          => (lock.owner # NoThread \/ lock'.owner # NoThread)]_vars

(***************************************************************************)
(* Exclusion of update() executions per subtree (githubfs.py).             *)
(***************************************************************************)
\* The update() executions in progress on directory d, as (thread, depth).
Executions(d) ==
    UNION {{<<t, k>> : k \in {j \in 1..Len(stk[t]) : stk[t][j].d = d}} :
              t \in Threads}

\* C21: at no time are two executions of update() in progress on the same
\* tag or branch directory, neither one of a request against one of the
\* update thread, nor one entered from within the other.
C21_OneUpdateAtATime ==
    \A d \in DOMAIN nodes : Cardinality(Executions(d)) <= 1

(***************************************************************************)
(* The range allocator (fs.py, FileSystem.create_ino_range).               *)
(***************************************************************************)
\* C22: create_ino_range(num), called when the counter is c, returns the
\* bounds of the closed range c+1 .. c+num, of exactly num numbers, and
\* leaves the counter at c+num, the last number of the range.
C22_RangeIsExact ==
    [][\A t \in Threads :
          apc[t].pc = "create_ino_range" /\ apc'[t].pc = "return" =>
              /\ apc'[t].ret = <<ino + 1, ino + apc[t].num>>
              /\ ino' = ino + apc[t].num]_vars

(***************************************************************************)
(* The walk of a scheduler pass (githubfs.py, update_repo).                *)
(***************************************************************************)
\* C23: a scheduler pass that reaches its sleep has, for the repository
\* returned, called update() on the 'tags' subtree and on the 'branches'
\* subtree, when both existed as the pass came to the repository.
C23_PassUpdatesBoth ==
    sched.pc = "sleep" /\ sched.repos # <<>> /\ sched.h_both =>
        sched.h_upd = {"tags", "branches"}

(***************************************************************************)
(* Byte-range reads of a string payload (ReadableString.read).             *)
(***************************************************************************)
Min(a, b) == IF a < b THEN a ELSE b
Max(a, b) == IF a > b THEN a ELSE b

\* C24: read(size, offset) returns the bytes of the string's UTF-8 encoding
\* at the positions offset .. offset+size-1, as far as the encoding goes:
\* max(0, min(size, encoded length - offset)) bytes, none when the offset is
\* at or past the end.
C24_ReadSlicesEncoding ==
    payload.op = "read" =>
        LET bytes == encode(payload.s)
            n == Max(0, Min(payload.size, Len(bytes) - payload.offset))
        IN  /\ Len(payload.ret) = n
            /\ \A k \in 1..n : payload.ret[k] = bytes[payload.offset + k]

\* A read that starts inside a character of three bytes and ends inside one
\* of two.
C24_Witness ==
    /\ payload.op = "read"
    /\ payload.s = <<8364, 233>>
    /\ payload.offset = 1 /\ payload.size = 3
    /\ payload.ret = <<130, 172, 195>>

(***************************************************************************)
(* Failure of a gathered fetch (RepoTagDirectory.update and                *)
(* RepoBranchDirectory.update).                                            *)
(***************************************************************************)
\* The fetch whose exception ended thread t's update().
Exc(t) == IF t = "sched" THEN sched.h_exc ELSE rd.h_exc

\* C25: when one of the info fetches gathered by an update() raises, that
\* update() has looked up or added no child and stamped none, and the step
\* leaves the tree as it is: the tree is patched only once the list and
\* every info have arrived.
C25_FailedGatherPatchesNothing ==
    [][\A t \in Threads :
          Running(t) /\ stk'[t] = <<>> /\ Exc(t)' = "info" =>
              /\ Top(t).cur = 0
              /\ ~Top(t).moved
              /\ nodes' = nodes]_vars

\* The update thread was ended by a failed info fetch of a subtree, which
\* has no child.
C25_Witness ==
    /\ sched.pc = "dead" /\ sched.h_exc = "info"
    /\ \E x \in {"tags", "branches"} :
          /\ Has(nodes, sched.repo_dir, x)
          /\ nodes[nodes[sched.repo_dir].entry_by_name[x]].entry_by_name = <<>>

(***************************************************************************)
(* Attributes by name and by inode (fs.py, PathTree.add_dir,               *)
(* FileSystem.lookup, FileSystem.getattr).                                 *)
(***************************************************************************)
\* C27: for every directory entry, the attributes lookup(parent, name)
\* replies with are the attributes getattr replies with for the entry's
\* inode.
C27_LookupAttrIsGetattrAttr ==
    \A p \in DOMAIN trees : \A x \in DOMAIN trees[p].entries :
        trees[p].entries[x].type_ = "dir" =>
            lookup(trees, p, x).attr =
                getattr(trees, ino, trees[p].entries[x].inode).attr

(***************************************************************************)
(* The synthesized entries of a listing (DirectoryEntry.get_entries).      *)
(***************************************************************************)
\* C28: for every directory D that add_dir has attached under a parent P,
\* made by add_dir or made before as a tag or branch subtree, the '..' of
\* D's listing carries P's inode and the '.' carries D's own attributes,
\* those its entry under P has; the '..' of the root's listing carries
\* inode 1, the root's own inode.
C28_DotAndDotDot ==
    /\ \A p \in DOMAIN nodes : \A x \in DOMAIN nodes[p].entry_by_name :
          LET D == nodes[p].entry_by_name[x]
              listing == DirectoryEntry_get_entries(nodes, D)
          IN  /\ listing.dotdot.st_ino = p
              /\ listing.dot = TreeView(nodes)[p].entries[x].attr
              /\ listing.dot.st_ino = D
    /\ nodes # <<>> =>
          /\ RootInode \in DOMAIN nodes
          /\ \A p \in DOMAIN nodes : \A x \in DOMAIN nodes[p].entry_by_name :
                nodes[p].entry_by_name[x] # RootInode
          /\ DirectoryEntry_get_entries(nodes, RootInode).dotdot.st_ino = 1
          /\ RootInode = 1

\* A tag subtree made before it was attached under the repository, and a
\* child that its update() added to it.
C28_Witness ==
    \E d \in DOMAIN nodes :
        /\ nodes[d].cls = "RepoTagDirectory"
        /\ nodes[d].parent_inode # RootInode
        /\ Has(nodes, nodes[d].parent_inode, "tags")
        /\ Has(nodes, d, "v1")
        /\ DirectoryEntry_get_entries(nodes, nodes[d].entry_by_name["v1"]).dotdot.st_ino = d
====
